---- MODULE Spec2Model ----
(***************************************************************************)
(* Paginated interactive menus of the destiny and hockey cogs:             *)
(*   destiny/menus.py  BaseMenu   (kind "destiny")                         *)
(*   hockey/menu.py    BaseMenu   (kind "hockey")                          *)
(*   hockey/menu.py    GamesMenu  (kind "games")                           *)
(* One behaviour follows one menu session: construction, start, the        *)
(* interactions dispatched to it, its callbacks (split at their awaits),   *)
(* and the view timeout.                                                   *)
(***************************************************************************)
EXTENDS Integers, Sequences, FiniteSets, TLC

VARIABLES
    kind,          \* which menu class the session is
    pages,         \* the source's page list (source.pages / entries)
    has_select,    \* hasattr(source, "select_options")
    ephemeral,     \* message.flags.ephemeral
    max_known,     \* the source of a BaseMenu reports its max_pages (not None)
    label,         \* the labels of the Heatmap and Gameflow buttons
    tracker,       \* the game tracker: saved team entries, game data, posts made
    phase,         \* "new" (constructed), "live" (message sent), "failed" (start raised)
    current_page,  \* view.current_page
    select_view,   \* <<>> for None, <<lo, hi>> for a select over select_options[lo:hi]
    disabled,      \* the disabled flag of each navigation control
    finished,      \* the view's end: "no", "stopped" (View.stop) or "timeout"
    message,       \* the message on the platform: exists, attached controls, content
    task,          \* the one interaction callback in flight and its position
    author,        \* view.author: <<>> until start records it
    teardowns,     \* teardown side effects performed on the message so far
    source,        \* the filter state of the GamesMenu's source (a Schedule)
    calls,         \* what the current (or last) callback has done so far
    parked,        \* a second callback task, suspended while the first one runs
    timer,         \* the clock and the view's timeout expiry
    fx             \* what the last step did (edits, notices, deletes, errors)

vars == <<kind, pages, has_select, ephemeral, max_known, tracker, label, parked, timer, phase, current_page, select_view,
          disabled, finished, message, task, author, teardowns, source, calls, fx>>

----------------------------------------------------------------------------
\* Bounds of the exploration.

\* short page lists have 0..SmallLen pages
SmallLen == 3
\* the one long page list (more than 25 + 12 options, so every window case occurs)
BigLen == 39
\* GamesMenu page numbers are explored up to GMaxPage ...
GMaxPage == 15
\* ... and down to -GMinDepth
GMinDepth == 1
\* option-list lengths of the select-window specification
MaxOpts == 100
\* the clock advances in steps of TickSeconds ...
TickSeconds == 60
\* ... up to MaxClock seconds after construction
MaxClock == 360

\* Program constants.
\* Discord's limit on the options of one select
SelectLimit == 25
\* options kept behind the current page in a centred window
Behind == 12
\* options kept ahead of the current page in a centred window (end exclusive)
Ahead == 13
\* the default timeout of every menu, in seconds
Timeout == 180

----------------------------------------------------------------------------
\* Python values.

\* Optional[int]: <<>> is None, <<n>> is n
None == <<>>
Some(n) == <<n>>

Min(a, b) == IF a < b THEN a ELSE b
Max(a, b) == IF a > b THEN a ELSE b

\* seq[start:stop] on a sequence of length L, as the pair <<lo, hi>> of the
\* 0-based bounds it selects (Python clamps both ends; None is the open end)
SliceBound(L, x, dflt) ==
    IF x = None THEN dflt
    ELSE IF x[1] < 0 THEN Max(x[1] + L, 0)
    ELSE Min(x[1], L)

PySlice(L, start, stop) ==
    LET lo == SliceBound(L, start, 0)
        hi == SliceBound(L, stop, L)
    IN  <<lo, Max(lo, hi)>>

\* number of options of a select
NumOptions(sel) == IF sel = None THEN 0 ELSE sel[2] - sel[1]

\* the option indices a select shows
OptionsOf(sel) == IF sel = None THEN {} ELSE sel[1] .. (sel[2] - 1)

\* list.index(x): 0-based position of the first element equal to x
PageIndex(ps, x) ==
    (CHOOSE i \in 1..Len(ps) : ps[i] = x /\ \A j \in 1..(i - 1) : ps[j] # x) - 1

\* ListPageSource.get_page with per_page=1 is entries[page_number]:
\* None stands for IndexError; a negative index counts from the end
ListGetPage(ps, n) ==
    IF n >= -Len(ps) /\ n < Len(ps) THEN Some(ps[(n % Len(ps)) + 1]) ELSE None

\* ListPageSource.get_max_pages with per_page=1
get_max_pages(ps) == Len(ps)

\* one select option per page
NOpts == Len(pages)

----------------------------------------------------------------------------
\* The select window.

\* _get_select_menu with the centred window cut one option short
get_select_menu_short(L, c) ==
    IF L > SelectLimit THEN
        IF Behind < c /\ c < L - SelectLimit
        THEN PySlice(L, Some(c - Behind), Some(c + Behind))
        ELSE IF c >= L - SelectLimit
        THEN PySlice(L, Some(L - SelectLimit), None)
        ELSE PySlice(L, None, Some(SelectLimit))
    ELSE PySlice(L, None, Some(SelectLimit))

\* _get_select_menu with the tail case showing the first options instead
get_select_menu_head(L, c) ==
    IF L > SelectLimit THEN
        IF Behind < c /\ c < L - SelectLimit
        THEN PySlice(L, Some(c - Behind), Some(c + Ahead))
        ELSE PySlice(L, None, Some(SelectLimit))
    ELSE PySlice(L, None, Some(SelectLimit))

\* destiny BaseMenu._get_select_menu: the slice of select_options shown when
\* the list has L options and self.current_page is c
get_select_menu(L, c) ==
    IF L > SelectLimit THEN
        IF Behind < c /\ c < L - SelectLimit
        THEN PySlice(L, Some(c - Behind), Some(c + Ahead))
        ELSE IF c >= L - SelectLimit
        THEN PySlice(L, Some(L - SelectLimit), None)
        ELSE PySlice(L, None, Some(SelectLimit))
    ELSE PySlice(L, None, Some(SelectLimit))

\* update_select_view slicing one option further ahead
update_select_view_wide(L, page_number) ==
    IF page_number >= Behind
    THEN PySlice(L, Some(page_number - Behind), Some(page_number + Ahead + 1))
    ELSE PySlice(L, None, Some(SelectLimit))

\* hockey BaseMenu.update_select_view: the options of the rebuilt select
update_select_view(L, page_number) ==
    IF page_number >= Behind
    THEN PySlice(L, Some(page_number - Behind), Some(page_number + Ahead))
    ELSE PySlice(L, None, Some(SelectLimit))

\* GamesMenu.show_page: the options of the rebuilt select
games_select_options(L, page_number) ==
    IF page_number >= Behind
    THEN PySlice(L, Some(page_number - Behind), Some(page_number + Ahead))
    ELSE PySlice(L, None, Some(SelectLimit))

\* the select built by each constructor / by GamesMenu.start
initial_select(k, L, sel, c) ==
    IF ~sel THEN None
    ELSE IF k = "destiny" THEN get_select_menu(L, c)
    ELSE IF k = "hockey" THEN PySlice(L, None, Some(SelectLimit))
    ELSE None

\* GamesMenu.start attaches a select only for more than one option
games_has_select(sel, L) == sel /\ L > 1

----------------------------------------------------------------------------
\* Controls.

NavControls == {"first", "back", "forward", "last"}

\* the items the view holds (add_item / remove_item), given its select
ViewItems(k, sel) ==
    NavControls \cup {"stop"}
    \cup (IF k = "games" THEN {"pick_team", "change_date", "heatmap", "gameflow"} ELSE {})
    \cup (IF sel = None THEN {} ELSE {"select"})

\* the controls every menu has
Controls == NavControls \cup {"stop", "select"}
\* ... with the filter-entry controls of a GamesMenu
FilterControls == Controls \cup {"pick_team", "change_date"}
\* ... with the toggle controls of a GamesMenu
ToggleControls == Controls \cup {"heatmap", "gameflow"}

AllEnabled == [c \in NavControls \cup {"select"} |-> FALSE]

\* destiny BaseMenu.check_disabled_buttons: the new disabled flags
check_disabled_buttons(ps, sel, d) ==
    [c \in NavControls \cup {"select"} |->
        IF c = "select" /\ ~sel THEN d[c] ELSE Len(ps) = 1]

\* interaction_check letting every user through
interaction_check_open(k, auth, user) == TRUE

\* interaction_check of each menu: TRUE lets the callback run
interaction_check(k, auth, user) ==
    IF k = "destiny" THEN user = auth[1]
    ELSE ~(auth # None /\ user # auth[1])

\* show_checked_page handing the requested index on as it is
show_checked_page_unchecked(max_pages, page_number) == page_number

\* show_checked_page of destiny and hockey BaseMenu: the index handed to show_page
show_checked_page(max_pages, page_number) ==
    IF page_number >= max_pages THEN 0
    ELSE IF page_number < 0 THEN max_pages - 1
    ELSE page_number

\* StopButton.callback after view.stop(): TRUE when the message is deleted,
\* FALSE when it is edited with view=None
stop_deletes(k, eph) == IF k = "destiny" THEN ~eph ELSE TRUE

----------------------------------------------------------------------------
\* Records.

Users == {"u1", "u2"}
\* ctx.author, the user who invoked the command
Invoker == "u1"

NoMessage == [exists |-> FALSE, view |-> {}, content |-> "none"]

Idle ==
    [pc |-> "idle", ctl |-> "none", user |-> "none", n |-> 0, checked |-> FALSE,
     value |-> None]

\* the log of a step that did nothing to the message
Fx(op) ==
    [op |-> op, edits |-> 0, notices |-> 0, deletes |-> 0, sends |-> 0,
     err |-> "none", content |-> "none", req |-> None, get |-> None,
     answer |-> "none", reply |-> None]

\* a callback that has not called anything yet
NoCalls == [gets |-> 0, edits |-> 0, sends |-> 0]

\* no second callback task
NoTask == [t |-> Idle, calls |-> NoCalls]

\* the step just taken belongs to the callback in flight: its get_page
\* attempt, edits and sends are added to what the callback has done
Tally ==
    calls' = [gets |-> calls.gets + (IF fx'.get = None THEN 0 ELSE 1),
              edits |-> calls.edits + fx'.edits,
              sends |-> calls.sends + fx'.sends]

\* Message.edit / interaction.response.edit_message: a deleted message stays deleted
EditMessage(msg, items, content) ==
    IF msg.exists THEN [exists |-> TRUE, view |-> items, content |-> content] ELSE msg

EditError(msg) == IF msg.exists THEN "none" ELSE "NotFound"

----------------------------------------------------------------------------
\* The filter state of a Schedule source and the free-text replies.

\* the teams of hockey/constants.py TEAMS, in dictionary order: the full name,
\* the tri_code and the nicknames of each
TEAMS ==
    <<[name |-> "Boston Bruins", tri_code |-> "BOS", nickname |-> {"Bs"}]>>

\* the words of a team's full name (team.split())
NameWords(team) ==
    IF team.name = "Boston Bruins" THEN {"Boston", "Bruins"} ELSE {team.name}

\* the dates DATE_RE finds in a word
Dates == {"2021-10-12"}

\* the messages a user may write while a follow-up waits, as clean_content.split()
Replies == {<<"BOS">>, <<"hello">>, <<"2021-10-12">>}

\* reg.findall(pot) is not empty: the word is the team's tri_code, a word of
\* its name or one of its nicknames
TeamFinds(team, pot) ==
    pot = team.tri_code \/ pot \in NameWords(team) \/ pot \in team.nickname

\* the inner loop of PickTeamButton.callback for one team: the team's name is
\* appended once for every word that names it
RECURSIVE TeamAppends(_, _)
TeamAppends(team, potential_teams) ==
    IF potential_teams = <<>> THEN <<>>
    ELSE (IF TeamFinds(team, Head(potential_teams)) THEN <<team.name>> ELSE <<>>)
         \o TeamAppends(team, Tail(potential_teams))

\* the list `teams` PickTeamButton.callback builds over TEAMS[i..]
RECURSIVE TeamsNamed(_, _)
TeamsNamed(i, potential_teams) ==
    IF i > Len(TEAMS) THEN <<>>
    ELSE TeamAppends(TEAMS[i], potential_teams) \o TeamsNamed(i + 1, potential_teams)

\* DATE_RE.search(clean_content): the date found, or None
DateIn(words) ==
    IF \E i \in 1..Len(words) : words[i] \in Dates
    THEN Some(words[CHOOSE i \in 1..Len(words) :
                       words[i] \in Dates /\ \A j \in 1..(i - 1) : words[j] \notin Dates])
    ELSE None

\* a style mapping that leaves the two power-play styles out
HeatmapNext_short(style) ==
    CASE style = "all" -> "ev"
      [] style = "ev" -> "5v5"
      [] style = "5v5" -> "sva"
      [] style = "sva" -> "all"
      [] style = "home5v4" -> "away5v4"
      [] style = "away5v4" -> "all"

\* the heatmap styles, in the order HeatmapButton.callback cycles them
HeatmapNext(style) ==
    CASE style = "all" -> "ev"
      [] style = "ev" -> "5v5"
      [] style = "5v5" -> "sva"
      [] style = "sva" -> "home5v4"
      [] style = "home5v4" -> "away5v4"
      [] style = "away5v4" -> "all"

\* a (corsi, strength) mapping that never leaves Corsi for Expected Goals
GameflowNext_same(corsi, strength) ==
    CASE strength = "all" -> <<corsi, "ev">>
      [] strength = "ev" -> <<corsi, "5v5">>
      [] strength = "5v5" -> <<corsi, "sva">>
      [] strength = "sva" -> <<corsi, "all">>

\* the mapping of GameflowButton.callback on (corsi, strength)
GameflowNext(corsi, strength) ==
    CASE strength = "all" -> <<corsi, "ev">>
      [] strength = "ev" -> <<corsi, "5v5">>
      [] strength = "5v5" -> <<corsi, "sva">>
      [] strength = "sva" -> <<~corsi, "all">>

\* a Schedule as the command builds it, filtered for the given teams
NewSource(team) ==
    [team |-> team, date |-> "today", include_heatmap |-> FALSE,
     include_gameflow |-> FALSE, style |-> "all", corsi |-> TRUE, strength |-> "all"]

----------------------------------------------------------------------------
\* Construction.

Distinct(L) == [i \in 1..L |-> i]
\* a list whose last page equals its first
DupLast(L) == [i \in 1..L |-> IF i = L THEN 1 ELSE i]

PageLists ==
    {Distinct(L) : L \in (0..SmallLen) \cup {BigLen}}
    \cup {DupLast(L) : L \in 2..SmallLen}

\* no game is being tracked
NoTracker == <<>>

\* the labels the Heatmap and Gameflow buttons are constructed with
NewLabels == [heatmap |-> <<"Heatmap">>, gameflow |-> <<"Gameflow">>]

\* __init__ of each menu
Construct(k, ps, sel, eph, page_start) ==
    /\ kind = k
    /\ pages = ps
    /\ has_select = sel
    /\ ephemeral = eph
    /\ phase = "new"
    /\ current_page = page_start
    /\ select_view = initial_select(k, Len(ps), sel, page_start)
    /\ disabled = AllEnabled
    /\ finished = "no"
    /\ message = NoMessage
    /\ task = Idle
    /\ author = None
    /\ teardowns = 0
    /\ calls = NoCalls
    /\ parked = NoTask
    /\ label = NewLabels
    /\ timer = [now |-> 0, started |-> None, expiry |-> None]
    /\ fx = Fx("init")

Init ==
    \E k \in {"destiny", "hockey", "games"}, ps \in PageLists,
       sel \in BOOLEAN, eph \in BOOLEAN :
        \E page_start \in (IF k = "games" THEN {0} ELSE (-1)..Len(ps)) :
            Construct(k, ps, sel, eph, page_start) /\ source = NewSource(<<>>) /\ max_known = TRUE
        /\ tracker = NoTracker

\* the destiny menu over option lists of every length up to MaxOpts,
\* started on any page of the list
InitWindow ==
    \E L \in 0..MaxOpts :
        \E page_start \in 0..(L - 1) :
            Construct("destiny", Distinct(L), TRUE, FALSE, page_start)
            /\ source = NewSource(<<>>) /\ max_known = TRUE
        /\ tracker = NoTracker

\* a GamesMenu over a schedule of two games, with or without a team filter
InitFilter ==
    \E sel \in BOOLEAN, team \in {<<>>, <<"Boston Bruins">>} :
        Construct("games", Distinct(2), sel, FALSE, 0) /\ source = NewSource(team) /\ max_known = TRUE
        /\ tracker = NoTracker

\* a GamesMenu over a schedule of two games
InitToggle ==
    Construct("games", Distinct(2), TRUE, FALSE, 0) /\ source = NewSource(<<>>) /\ max_known = TRUE
        /\ tracker = NoTracker

----------------------------------------------------------------------------
\* The view's timeout.  Every menu hands its timeout to the view framework,
\* which counts it from the moment the view starts listening and counts it
\* anew from each interaction it runs.

Refresh == timer' = [timer EXCEPT !.expiry = Some(timer.now + Timeout)]

\* the view starts listening when its message is sent: the session starts
Listen ==
    timer' = [timer EXCEPT !.started = Some(timer.now),
                           !.expiry = Some(timer.now + Timeout)]

----------------------------------------------------------------------------
\* start(): send_initial_message.

\* destiny BaseMenu.start.  send_initial_message sends the message with the
\* view and only then records the author; ctx.send either returns as soon as
\* the view listens (phase "live") or stays suspended for a while after that
\* (phase "sent": for an application command it goes on to fetch the message
\* it has sent)
start_destiny ==
    /\ kind = "destiny" /\ phase = "new"
    /\ LET page == ListGetPage(pages, current_page)
       IN  IF page = None
           THEN /\ phase' = "failed"
                /\ fx' = [Fx("start") EXCEPT !.err = "IndexError"]
                /\ UNCHANGED <<disabled, message, author>>
           ELSE /\ disabled' = check_disabled_buttons(pages, has_select, disabled)
                /\ message' = [exists |-> TRUE, view |-> ViewItems(kind, select_view),
                               content |-> "page"]
                /\ fx' = [Fx("start") EXCEPT !.sends = 1, !.content = "page"]
                /\ \/ phase' = "live" /\ author' = Some(Invoker)
                   \/ phase' = "sent" /\ author' = author
    /\ IF phase' = "failed" THEN UNCHANGED timer ELSE Listen
    /\ UNCHANGED <<kind, pages, source, has_select, ephemeral, max_known, tracker, label, parked, current_page,
                   select_view, finished, task, teardowns, calls>>

\* destiny send_initial_message resumes after ctx.send and records the author
send_initial_message_resumed ==
    /\ kind = "destiny" /\ phase = "sent"
    /\ phase' = "live"
    /\ author' = Some(Invoker)
    /\ fx' = [Fx("start") EXCEPT !.content = "page"]
    /\ UNCHANGED <<kind, pages, source, has_select, ephemeral, max_known, tracker, label, parked, timer,
                   current_page, select_view, disabled, finished, message, task,
                   teardowns, calls>>

\* hockey BaseMenu.start
start_hockey ==
    /\ kind = "hockey" /\ phase = "new"
    /\ LET page == ListGetPage(pages, current_page)
       IN  IF page = None
           THEN /\ phase' = "failed"
                /\ fx' = [Fx("start") EXCEPT !.err = "IndexError"]
                /\ UNCHANGED <<message, author>>
           ELSE /\ phase' = "live"
                /\ message' = [exists |-> TRUE, view |-> ViewItems(kind, select_view),
                               content |-> "page"]
                /\ author' = Some(Invoker)
                /\ fx' = [Fx("start") EXCEPT !.sends = 1, !.content = "page"]
    /\ IF phase' = "live" THEN Listen ELSE UNCHANGED timer
    /\ UNCHANGED <<kind, pages, source, has_select, ephemeral, max_known, tracker, label, parked, current_page,
                   select_view, disabled, finished, task, teardowns, calls>>

\* what the GamesMenu's source answers to get_page
GetPageOutcomes == {"ok", "NoSchedule", "IndexError"}

\* GamesMenu.start
start_games ==
    /\ kind = "games" /\ phase = "new"
    /\ \E out \in GetPageOutcomes :
        LET content == IF out = "ok" THEN "page" ELSE "error"
        IN  /\ select_view' = IF games_has_select(has_select, NOpts)
                              THEN PySlice(NOpts, None, Some(SelectLimit))
                              ELSE select_view
            /\ message' = [exists |-> TRUE, view |-> ViewItems(kind, select_view'),
                           content |-> content]
            /\ fx' = [Fx("start") EXCEPT !.sends = 1, !.content = content]
    /\ phase' = "live"
    /\ author' = Some(Invoker)
    /\ Listen
    /\ UNCHANGED <<kind, pages, source, has_select, ephemeral, max_known, tracker, label, parked, current_page, disabled,
                   finished, task, teardowns, calls>>

----------------------------------------------------------------------------
\* Interactions.  The view framework dispatches an interaction on one of the
\* message's controls as a task while the view is not finished; the task then
\* runs interaction_check and, if allowed, the control's callback.  The model
\* follows one such task at a time; the timeout may fire at any of its steps.

Disabled(c) == c \in DOMAIN disabled /\ disabled[c]

\* View.is_finished()
Finished == finished # "no"

\* View.stop(): ends the view unless it has already ended
view_stop(f) == IF f = "no" THEN "stopped" ELSE f

\* what an interaction on control c carries: on the select, the option chosen
\* among those it shows (by its index in source.select_options)
Values(c) == IF c = "select" THEN {Some(o) : o \in OptionsOf(select_view)} ELSE {None}

\* View._dispatch_item: a user activates an attached, enabled control, one of cs
dispatch(cs) ==
    /\ phase \in {"live", "sent"} /\ ~Finished /\ task.pc = "idle"
    /\ message.exists
    /\ \E user \in Users, c \in cs :
        /\ c \in message.view /\ ~Disabled(c)
        /\ \E v \in Values(c) :
            task' = [Idle EXCEPT !.pc = "queued", !.ctl = c, !.user = user, !.value = v]
    /\ fx' = Fx("dispatch")
    /\ calls' = NoCalls
    /\ UNCHANGED <<kind, pages, source, has_select, ephemeral, max_known, tracker, label, parked, timer, phase, current_page,
                   select_view, disabled, finished, message, author, teardowns>>

\* destiny interaction_check reads self.author.id: with author still None it
\* raises before it answers
check_raises == kind = "destiny" /\ author = None

Allowed == ~check_raises /\ interaction_check(kind, author, task.user)

\* interaction_check raises AttributeError: the view logs it, nothing is sent
\* to the user and the callback does not run
interaction_check_raises ==
    /\ task.pc = "queued" /\ check_raises
    /\ task' = Idle
    /\ fx' = [Fx("interaction_check") EXCEPT !.err = "AttributeError"]
    /\ Tally
    /\ Refresh \/ UNCHANGED timer
    /\ UNCHANGED <<kind, pages, source, has_select, ephemeral, max_known, tracker, label, parked, phase,
                   current_page, select_view, disabled, finished, message, author,
                   teardowns>>

\* interaction_check answers False: one ephemeral notice, the callback does not run
interaction_rejected ==
    /\ task.pc = "queued" /\ ~check_raises /\ ~Allowed
    /\ task' = Idle
    /\ fx' = [Fx("interaction_check") EXCEPT !.notices = 1]
    /\ Tally
    /\ Refresh \/ UNCHANGED timer
    /\ UNCHANGED <<kind, pages, source, has_select, ephemeral, max_known, tracker, label, parked, phase, current_page,
                   select_view, disabled, finished, message, author, teardowns>>

\* the callback of control c starts
Runs(c) == task.pc = "queued" /\ task.ctl = c /\ Allowed

\* StopButton.callback of each menu
StopButton_callback ==
    /\ Runs("stop")
    /\ finished' = view_stop(finished)
    /\ IF stop_deletes(kind, ephemeral)
       THEN /\ message' = [message EXCEPT !.exists = FALSE, !.view = {}]
            /\ fx' = [Fx("stop") EXCEPT !.deletes = 1]
       ELSE /\ message' = EditMessage(message, {}, message.content)
            /\ fx' = [Fx("stop") EXCEPT !.edits = 1]
    /\ teardowns' = teardowns + 1
    /\ task' = Idle
    /\ Tally /\ Refresh
    /\ UNCHANGED <<kind, pages, source, has_select, ephemeral, max_known, tracker, label, parked, phase, current_page,
                   select_view, disabled, author>>

\* destiny / hockey BaseMenu.show_page(page_number) up to its first suspension
\* (format_page); `checked` says the call came through show_checked_page, which
\* swallows IndexError, and req is the index that was asked of it
BeginShowPage(page_number, checked, req) ==
    LET page == ListGetPage(pages, page_number)
        rebuilt == kind = "destiny" /\ has_select /\ page_number >= Behind
    IN  IF page = None
        THEN /\ task' = Idle
             /\ fx' = [Fx("show_page") EXCEPT
                         !.err = IF checked THEN "swallowed" ELSE "IndexError",
                         !.req = req, !.get = Some(page_number)]
             /\ UNCHANGED <<current_page, select_view, disabled>>
        ELSE /\ select_view' = IF rebuilt THEN get_select_menu(NOpts, current_page)
                               ELSE select_view
             /\ disabled' = IF rebuilt THEN [disabled EXCEPT !["select"] = FALSE]
                            ELSE disabled
             /\ current_page' = IF kind = "destiny" THEN PageIndex(pages, page[1])
                                ELSE page_number
             /\ task' = [task EXCEPT !.pc = "format", !.n = page_number,
                                     !.checked = checked]
             /\ fx' = [Fx("show_page") EXCEPT !.req = req, !.get = Some(page_number)]

\* GamesMenu.show_page(page_number, ...) up to its first suspension (get_page)
BeginGamesShowPage(page_number, checked) ==
    /\ page_number <= GMaxPage /\ page_number >= -GMinDepth
    /\ task' = [task EXCEPT !.pc = "get_page", !.n = page_number, !.checked = checked]
    /\ fx' = Fx("show_page")
    /\ UNCHANGED <<current_page, select_view, disabled>>

\* BaseMenu.show_checked_page on the menu's source: with max_pages None the
\* index goes to show_page as it is
checked_page(page_number) ==
    IF max_known THEN show_checked_page(get_max_pages(pages), page_number)
    ELSE page_number

\* get_max_pages() - 1 when get_max_pages() is None
none_minus_one == "TypeError"

Frame == UNCHANGED <<kind, pages, source, has_select, ephemeral, max_known, tracker, label, parked, phase, finished, message,
                     author, teardowns>>

\* ForwardButton.callback
ForwardButton_callback ==
    /\ Runs("forward")
    /\ IF kind = "games"
       THEN BeginGamesShowPage(current_page + 1, TRUE)
       ELSE BeginShowPage(checked_page(current_page + 1), TRUE, Some(current_page + 1))
    /\ Frame /\ Tally /\ Refresh

\* BackButton.callback
BackButton_callback ==
    /\ Runs("back")
    /\ IF kind = "games"
       THEN BeginGamesShowPage(current_page - 1, TRUE)
       ELSE BeginShowPage(checked_page(current_page - 1), TRUE, Some(current_page - 1))
    /\ Frame /\ Tally /\ Refresh

\* FirstItemButton.callback; in a GamesMenu first_item is a SkipBackButton
FirstItemButton_callback ==
    /\ Runs("first")
    /\ IF kind = "games"
       THEN BeginGamesShowPage(0, FALSE)
       ELSE BeginShowPage(0, FALSE, None)
    /\ Frame /\ Tally /\ Refresh

\* LastItemButton.callback; in a GamesMenu last_item is a SkipForwardButton
LastItemButton_callback ==
    /\ Runs("last")
    /\ IF kind = "games"
       THEN BeginGamesShowPage(0, FALSE)
       ELSE IF max_known
       THEN BeginShowPage(get_max_pages(pages) - 1, FALSE, None)
       ELSE /\ task' = Idle
            /\ fx' = [Fx("last") EXCEPT !.err = none_minus_one]
            /\ UNCHANGED <<current_page, select_view, disabled>>
    /\ Frame /\ Tally /\ Refresh

\* DestinySelect.callback: the option's value is its page index
DestinySelect_callback ==
    /\ kind = "destiny" /\ Runs("select")
    /\ LET index == task.value[1]
       IN  BeginShowPage(checked_page(index), TRUE, Some(index))
    /\ Frame /\ Tally /\ Refresh

\* HockeySelectPlayer.callback: the option's value is the page (a player id)
HockeySelectPlayer_callback ==
    /\ kind = "hockey" /\ Runs("select")
    /\ LET player_id == pages[task.value[1] + 1]
       IN  BeginShowPage(PageIndex(pages, player_id), FALSE, None)
    /\ Frame /\ Tally /\ Refresh

\* HockeySelectGame.callback: show_page(0, game_id=...)
HockeySelectGame_callback ==
    /\ kind = "games" /\ Runs("select")
    /\ BeginGamesShowPage(0, FALSE)
    /\ Frame /\ Tally /\ Refresh

\* an IndexError answered by asking the source again
on_IndexError_retry(t) == t

\* GamesMenu.show_page lets IndexError out: show_checked_page swallows it or
\* it leaves the callback; either way the callback is over
on_IndexError(t) == Idle

\* an error edit that drops the view (view=None)
format_error_edit_detached(msg, sel) == EditMessage(msg, {}, "error")

\* GamesMenu.show_page on NoSchedule: edit with content=format_error(), view=self
format_error_edit(msg, sel) == EditMessage(msg, ViewItems("games", sel), "error")

\* GamesMenu.show_page resumes with the answer of source.get_page
games_get_page_done ==
    /\ task.pc = "get_page"
    /\ \E out \in GetPageOutcomes :
        IF out = "NoSchedule"
        THEN /\ message' = format_error_edit(message, select_view)
             /\ fx' = [Fx("format_error") EXCEPT !.edits = 1, !.content = "error",
                                                 !.err = EditError(message),
                                                 !.get = Some(task.n)]
             /\ task' = Idle
             /\ UNCHANGED <<current_page, select_view>>
        ELSE IF out = "IndexError"
        THEN /\ fx' = [Fx("show_page") EXCEPT
                         !.err = IF task.checked THEN "swallowed" ELSE "IndexError",
                         !.get = Some(task.n)]
             /\ task' = on_IndexError(task)
             /\ UNCHANGED <<current_page, select_view, message>>
        ELSE /\ select_view' = IF games_has_select(has_select, NOpts)
                               THEN games_select_options(NOpts, task.n)
                               ELSE select_view
             /\ current_page' = task.n
             /\ task' = [task EXCEPT !.pc = "format"]
             /\ fx' = [Fx("get_page") EXCEPT !.get = Some(task.n)]
             /\ UNCHANGED message
    /\ Tally
    /\ UNCHANGED <<kind, pages, source, has_select, ephemeral, max_known, tracker, label, parked, timer, phase, disabled, finished,
                   author, teardowns>>

\* show_page resumes after format_page: the rest of _get_kwargs_from_page,
\* hockey's update_select_view, and the edit of the message with view=self
show_page_edit ==
    /\ task.pc = "format"
    /\ select_view' = IF kind = "hockey" /\ has_select
                      THEN update_select_view(NOpts, task.n)
                      ELSE select_view
    /\ disabled' = IF kind = "destiny"
                   THEN check_disabled_buttons(pages, has_select, disabled)
                   ELSE disabled
    /\ message' = EditMessage(message, ViewItems(kind, select_view'), "page")
    /\ fx' = [Fx("edit") EXCEPT !.edits = 1, !.content = "page",
                                !.err = EditError(message)]
    /\ task' = Idle
    /\ Tally
    /\ UNCHANGED <<kind, pages, source, has_select, ephemeral, max_known, tracker, label, parked, timer, phase, current_page, finished,
                   author, teardowns>>

----------------------------------------------------------------------------
\* The filter-entry and toggle controls of a GamesMenu.

\* what the Schedule's prepare() answers
PrepareOutcomes == {"ok", "NoSchedule"}

\* PickTeamButton.callback up to bot.wait_for: the prompt is sent
PickTeamButton_callback ==
    /\ Runs("pick_team")
    /\ task' = [task EXCEPT !.pc = "wait"]
    /\ fx' = [Fx("send_message") EXCEPT !.sends = 1, !.content = "prompt"]
    /\ UNCHANGED <<current_page, select_view, disabled>>
    /\ Frame /\ Tally /\ Refresh

\* PickDateButton.callback up to bot.wait_for: the prompt is sent
PickDateButton_callback ==
    /\ Runs("change_date")
    /\ task' = [task EXCEPT !.pc = "wait"]
    /\ fx' = [Fx("send_message") EXCEPT !.sends = 1, !.content = "prompt"]
    /\ UNCHANGED <<current_page, select_view, disabled>>
    /\ Frame /\ Tally /\ Refresh

\* a check that does not look at who wrote the message
wait_for_check_anyone(ctl, auth, user, words) ==
    IF ctl = "pick_team" THEN TRUE ELSE DateIn(words) # None

\* the check handed to bot.wait_for by each of the two callbacks
wait_for_check(ctl, auth, user, words) ==
    IF ctl = "pick_team" THEN Some(user) = auth
    ELSE Some(user) = auth /\ DateIn(words) # None

\* wait_for raises asyncio.TimeoutError after 30 s: the callback deletes its
\* prompt (not the menu's message) and returns
wait_for_timeout ==
    /\ task.pc = "wait"
    /\ task' = Idle
    /\ fx' = Fx("wait_for_timeout")
    /\ UNCHANGED <<kind, pages, source, has_select, ephemeral, max_known, tracker, label, parked, timer, phase, current_page,
                   select_view, disabled, finished, message, author, teardowns>>
    /\ Tally

\* a user writes a message while the callback waits.  A message the check
\* turns down leaves the wait going; the first one it accepts is parsed, the
\* filter is stored in the source and prepare() is called
wait_for_message ==
    /\ task.pc = "wait"
    /\ \E user \in Users, words \in Replies :
        IF ~wait_for_check(task.ctl, author, user, words)
        THEN /\ fx' = [Fx("wait_for") EXCEPT !.reply = <<user, words>>]
             /\ UNCHANGED <<task, source>>
        ELSE /\ source' = IF task.ctl = "pick_team"
                           THEN [source EXCEPT !.team = TeamsNamed(1, words)]
                           ELSE [source EXCEPT !.date = DateIn(words)[1]]
             /\ task' = [task EXCEPT !.pc = "prepare"]
             /\ fx' = [Fx("reply") EXCEPT !.reply = <<user, words>>]
    /\ UNCHANGED <<kind, pages, has_select, ephemeral, max_known, tracker, label, parked, timer, phase, current_page,
                   select_view, disabled, finished, message, author, teardowns>>
    /\ Tally

\* the error a button's callback ends with when prepare() raised NoSchedule:
\* PickTeamButton evaluates self.format_error and PickDateButton self.ctx,
\* attributes a Button does not have, before anything is sent
no_schedule_error(ctl) == "AttributeError"

\* a button calls self.view.show_page(0, interaction): GamesMenu.show_page takes
\* interaction by keyword only, so the call raises before show_page runs
show_page_positional == "TypeError"

\* prepare() returns or raises, and the callback of Pick Team / Change Date
\* runs to its end
prepare_done ==
    /\ task.pc = "prepare"
    /\ \E out \in PrepareOutcomes :
        fx' = [Fx("prepare") EXCEPT
                 !.err = IF out = "NoSchedule" THEN no_schedule_error(task.ctl)
                         ELSE show_page_positional,
                 !.answer = out]
    /\ task' = Idle
    /\ UNCHANGED <<kind, pages, source, has_select, ephemeral, max_known, tracker, label, parked, timer, phase, current_page,
                   select_view, disabled, finished, message, author, teardowns>>
    /\ Tally

\* a Heatmap press that leaves include_gameflow as it is
heatmap_pressed_only(src) ==
    IF ~src.include_heatmap
    THEN [src EXCEPT !.include_heatmap = TRUE]
    ELSE [src EXCEPT !.style = HeatmapNext(src.style)]

\* the source after the assignments of HeatmapButton.callback
heatmap_pressed(src) ==
    IF ~src.include_heatmap
    THEN [src EXCEPT !.include_gameflow = FALSE, !.include_heatmap = TRUE]
    ELSE [src EXCEPT !.include_gameflow = FALSE, !.style = HeatmapNext(src.style)]

\* HeatmapButton.callback: the source and the label are assigned, then
\* show_page(0, interaction) is called
HeatmapButton_callback ==
    /\ Runs("heatmap")
    /\ source' = heatmap_pressed(source)
    /\ label' = [label EXCEPT !.heatmap = <<"Heatmap", source'.style>>]
    /\ task' = Idle
    /\ fx' = [Fx("heatmap") EXCEPT !.err = show_page_positional]
    /\ UNCHANGED <<kind, pages, has_select, ephemeral, max_known, tracker, parked, phase,
                   current_page, select_view, disabled, finished, message, author,
                   teardowns>>
    /\ Tally /\ Refresh

\* the source after the assignments of GameflowButton.callback
gameflow_pressed(src) ==
    IF ~src.include_gameflow
    THEN [src EXCEPT !.include_heatmap = FALSE, !.include_gameflow = TRUE]
    ELSE [src EXCEPT
            !.include_heatmap = FALSE,
            !.corsi = GameflowNext(src.corsi, src.strength)[1],
            !.strength = GameflowNext(src.corsi, src.strength)[2]]

\* "Corsi" if corsi else "Expected Goals"
CorsiWord(corsi) == IF corsi THEN "Corsi" ELSE "Expected Goals"

\* GameflowButton.callback: the source and the label are assigned, then
\* show_page(0, interaction) is called
GameflowButton_callback ==
    /\ Runs("gameflow")
    /\ source' = gameflow_pressed(source)
    /\ label' = [label EXCEPT
                   !.gameflow = <<"Gameflow", CorsiWord(source'.corsi), source'.strength>>]
    /\ task' = Idle
    /\ fx' = [Fx("gameflow") EXCEPT !.err = show_page_positional]
    /\ UNCHANGED <<kind, pages, has_select, ephemeral, max_known, tracker, parked, phase,
                   current_page, select_view, disabled, finished, message, author,
                   teardowns>>
    /\ Tally /\ Refresh

----------------------------------------------------------------------------
\* the view times out: the framework marks it finished and runs on_timeout,
\* which edits the message with view=None
on_timeout ==
    /\ phase = "live" /\ ~Finished
    /\ finished' = "timeout"
    /\ message' = EditMessage(message, {}, message.content)
    /\ teardowns' = teardowns + 1
    /\ fx' = [Fx("on_timeout") EXCEPT !.edits = 1]
    /\ UNCHANGED <<kind, pages, source, has_select, ephemeral, max_known, tracker, label, parked, timer, phase, current_page,
                   select_view, disabled, task, author, calls>>

\* the event loop turns to the other callback task: every interaction is run
\* as a task of its own, so while one callback is suspended (or none is
\* running) a second one can be dispatched and run
switch ==
    /\ task.pc # "idle" \/ parked.t.pc # "idle"
    /\ task' = parked.t /\ calls' = parked.calls
    /\ parked' = [t |-> task, calls |-> calls]
    /\ fx' = Fx("switch")
    /\ UNCHANGED <<kind, pages, source, has_select, ephemeral, max_known, tracker, label, timer, phase,
                   current_page, select_view, disabled, finished, message, author,
                   teardowns>>

Next ==
    \/ start_destiny
    \/ send_initial_message_resumed
    \/ interaction_check_raises
    \/ start_hockey
    \/ start_games
    \/ dispatch(Controls)
    \/ interaction_rejected
    \/ StopButton_callback
    \/ ForwardButton_callback
    \/ BackButton_callback
    \/ FirstItemButton_callback
    \/ LastItemButton_callback
    \/ DestinySelect_callback
    \/ HockeySelectPlayer_callback
    \/ HockeySelectGame_callback
    \/ games_get_page_done
    \/ show_page_edit
    \/ on_timeout

Spec == Init /\ [][Next]_vars

\* the controls of a GamesMenu apart from its toggles
GamesNext ==
    \/ start_games
    \/ interaction_rejected
    \/ StopButton_callback
    \/ ForwardButton_callback
    \/ BackButton_callback
    \/ FirstItemButton_callback
    \/ LastItemButton_callback
    \/ HockeySelectGame_callback
    \/ games_get_page_done
    \/ show_page_edit
    \/ on_timeout

NextFilter ==
    \/ GamesNext
    \/ dispatch(FilterControls)
    \/ PickTeamButton_callback
    \/ PickDateButton_callback
    \/ wait_for_timeout
    \/ wait_for_message
    \/ prepare_done

\* a GamesMenu with its filter-entry controls, Pick Team and Change Date
SpecFilter == InitFilter /\ [][NextFilter]_vars

NextToggle ==
    \/ GamesNext
    \/ dispatch(ToggleControls)
    \/ HeatmapButton_callback
    \/ GameflowButton_callback

\* a GamesMenu with its toggle controls, Heatmap and Gameflow
SpecToggle == InitToggle /\ [][NextToggle]_vars

\* a GamesMenu over a schedule of two games, without a select
InitRace ==
    Construct("games", Distinct(2), FALSE, FALSE, 0) /\ source = NewSource(<<>>) /\ max_known = TRUE
        /\ tracker = NoTracker

\* the controls pressed while another callback is in flight: the two skip
\* buttons, Stop and Pick Team
RaceControls == {"first", "last", "stop", "pick_team"}

NextRace ==
    \/ start_games
    \/ dispatch(RaceControls)
    \/ interaction_rejected
    \/ StopButton_callback
    \/ FirstItemButton_callback
    \/ LastItemButton_callback
    \/ games_get_page_done
    \/ show_page_edit
    \/ PickTeamButton_callback
    \/ wait_for_timeout
    \/ wait_for_message
    \/ prepare_done
    \/ on_timeout
    \/ switch

\* a GamesMenu whose callbacks run as two tasks
SpecRace == InitRace /\ [][NextRace]_vars

\* the select-window function on every list length: construct, then start
SpecWindow == InitWindow /\ [][start_destiny]_vars

\* the timeout is due: the view has not ended and the clock has reached its expiry
Due == phase = "live" /\ ~Finished /\ timer.expiry # None /\ timer.now >= timer.expiry[1]

\* TickSeconds pass; a due timeout fires before more time passes
tick ==
    /\ timer.now < MaxClock /\ ~Due
    /\ timer' = [timer EXCEPT !.now = timer.now + TickSeconds]
    /\ fx' = Fx("tick")
    /\ UNCHANGED <<kind, pages, source, has_select, ephemeral, max_known, tracker, label, parked, phase, current_page,
                   select_view, disabled, finished, message, task, author, teardowns,
                   calls>>

\* the view's timeout task finds the expiry reached and runs on_timeout
on_timeout_due == Due /\ on_timeout

\* a menu of each kind over two pages, without a select
InitClock ==
    \E k \in {"destiny", "hockey", "games"} :
        Construct(k, Distinct(2), FALSE, FALSE, 0) /\ source = NewSource(<<>>) /\ max_known = TRUE
        /\ tracker = NoTracker

\* the controls pressed while the clock runs
ClockControls == {"forward", "stop"}

NextClock ==
    \/ start_destiny
    \/ send_initial_message_resumed
    \/ interaction_check_raises
    \/ start_hockey
    \/ start_games
    \/ dispatch(ClockControls)
    \/ interaction_rejected
    \/ StopButton_callback
    \/ ForwardButton_callback
    \/ games_get_page_done
    \/ show_page_edit
    \/ tick
    \/ on_timeout_due

\* a menu under a running clock: the timeout fires when its expiry is reached
SpecClock == InitClock /\ [][NextClock]_vars

\* a destiny or hockey menu over a source that does not report its max_pages
InitUnknown ==
    \E k \in {"destiny", "hockey"}, L \in 1..SmallLen, sel \in BOOLEAN :
        /\ Construct(k, Distinct(L), sel, FALSE, 0)
        /\ source = NewSource(<<>>) /\ max_known = FALSE
        /\ tracker = NoTracker

NextUnknown ==
    \/ start_destiny
    \/ send_initial_message_resumed
    \/ interaction_check_raises
    \/ start_hockey
    \/ dispatch(Controls)
    \/ interaction_rejected
    \/ StopButton_callback
    \/ ForwardButton_callback
    \/ BackButton_callback
    \/ FirstItemButton_callback
    \/ LastItemButton_callback
    \/ DestinySelect_callback
    \/ HockeySelectPlayer_callback
    \/ show_page_edit
    \/ on_timeout

\* a menu whose source answers None to get_max_pages
SpecUnknown == InitUnknown /\ [][NextUnknown]_vars

\* the heatmap styles and gameflow strengths the buttons' mappings know
Styles == {"all", "ev", "5v5", "sva", "home5v4", "away5v4"}
Strengths == {"all", "ev", "5v5", "sva"}

\* a GamesMenu over one game whose source has any heatmap and gameflow setting
InitCycle ==
    /\ Construct("games", Distinct(1), FALSE, FALSE, 0)
    /\ max_known = TRUE
        /\ tracker = NoTracker
    /\ \E h \in BOOLEAN, g \in BOOLEAN, st \in Styles, c \in BOOLEAN, sg \in Strengths :
        source = [NewSource(<<>>) EXCEPT !.include_heatmap = h, !.include_gameflow = g,
                                         !.style = st, !.corsi = c, !.strength = sg]

\* the two toggle controls
CycleControls == {"heatmap", "gameflow"}

NextCycle ==
    \/ start_games
    \/ dispatch(CycleControls)
    \/ interaction_rejected
    \/ HeatmapButton_callback
    \/ GameflowButton_callback

\* the Heatmap and Gameflow buttons pressed in any order from any setting
SpecCycle == InitCycle /\ [][NextCycle]_vars

----------------------------------------------------------------------------
\* The game tracker (Game in game.py).  When a game's state changes it walks
\* the configured channels and creates one task per post or edit, which it
\* does not await.  The tasks run on the same event loop as the menus.

\* a tracker edit that lands on the menu's message and drops its controls
tracker_edit_menu(msg) == EditMessage(msg, {}, msg.content)

\* msg.edit(embed=em) of maybe_edit_gamedaythread_message: msg is the start
\* message of a game-day thread, parent.get_partial_message(channel_id); the
\* message of a menu is another message and stays as it is
tracker_edit(msg) == msg

TrackerFrame ==
    UNCHANGED <<kind, pages, source, has_select, ephemeral, max_known, tracker, label, parked, timer, phase,
                current_page, select_view, disabled, finished, task, author,
                teardowns, calls>>

\* a task that posts to a tracked channel: channel.send unless the bot may not
\* send there (or is timed out); a failure of the send is logged
tracker_post(op) ==
    /\ \E sent \in BOOLEAN :
        fx' = [Fx(op) EXCEPT !.sends = IF sent THEN 1 ELSE 0]
    /\ UNCHANGED message

\* Game.post_period_recap, created by period_recap
post_period_recap ==
    /\ tracker_post("post_period_recap")
    /\ TrackerFrame

\* Game.actually_post_state, created by post_game_state
actually_post_state ==
    /\ tracker_post("actually_post_state")
    /\ TrackerFrame

\* Game.post_game_start, created by post_time_to_game_start
post_game_start ==
    /\ tracker_post("post_game_start")
    /\ TrackerFrame

\* the msg.edit task created by maybe_edit_gamedaythread_message
edit_gamedaythread_message ==
    /\ message' = tracker_edit(message)
    /\ fx' = [Fx("edit_gamedaythread_message") EXCEPT !.edits = 1]
    /\ TrackerFrame

\* Goal.edit_team_goal, created by check_team_goals: edits the goal posts
\* recorded for the team (old_msgs) in the tracked channels
edit_team_goal ==
    /\ fx' = [Fx("edit_team_goal") EXCEPT !.edits = 1]
    /\ UNCHANGED message
    /\ TrackerFrame

TrackerOps ==
    {"post_period_recap", "actually_post_state", "post_game_start",
     "edit_gamedaythread_message", "edit_team_goal"}

\* a menu of each kind over three pages
InitTracker ==
    \E k \in {"destiny", "hockey", "games"}, sel \in BOOLEAN :
        /\ Construct(k, Distinct(SmallLen), sel, FALSE, 0)
        /\ source = NewSource(<<>>) /\ max_known = TRUE
        /\ tracker = NoTracker

NextTracker ==
    \/ start_destiny
    \/ send_initial_message_resumed
    \/ interaction_check_raises
    \/ start_hockey
    \/ start_games
    \/ dispatch(Controls)
    \/ interaction_rejected
    \/ StopButton_callback
    \/ ForwardButton_callback
    \/ BackButton_callback
    \/ FirstItemButton_callback
    \/ LastItemButton_callback
    \/ DestinySelect_callback
    \/ HockeySelectPlayer_callback
    \/ HockeySelectGame_callback
    \/ games_get_page_done
    \/ show_page_edit
    \/ on_timeout
    \/ post_period_recap
    \/ actually_post_state
    \/ post_game_start
    \/ edit_gamedaythread_message
    \/ edit_team_goal

\* the menus while the game tracker's tasks run
SpecTracker == InitTracker /\ [][NextTracker]_vars

----------------------------------------------------------------------------
\* Properties.

\* a transition that went through show_checked_page has just set current_page
CheckedTransition ==
    /\ kind \in {"destiny", "hockey"}
    /\ fx.op = "show_page" /\ fx.req # None /\ task.pc = "format"

\* C1 (as claimed): with a known max_pages M > 0, a transition requested with
\* an index n >= M ends with current_page = 0, and one requested with n < 0
\* ends with current_page = M - 1.
C1_Wrap ==
    (CheckedTransition /\ get_max_pages(pages) > 0) =>
        /\ (fx.req[1] >= get_max_pages(pages) => current_page = 0)
        /\ (fx.req[1] < 0 => current_page = get_max_pages(pages) - 1)

\* the sources of destiny and hockey BaseMenu are list sources: max_pages is known
MaxPagesKnown == kind \in {"destiny", "hockey"} /\ max_known

\* C2 (as claimed): in every state of a started session, 0 <= current_page <
\* max_pages() whenever max_pages() is known and nonzero.
C2_PageInRange ==
    (phase = "live" /\ MaxPagesKnown /\ get_max_pages(pages) # 0) =>
        (0 <= current_page /\ current_page < get_max_pages(pages))

\* the queued interaction of a user other than the authorized one is handled
UnauthorizedHandled ==
    /\ task.pc = "queued" /\ author # None /\ task.user # author[1]
    /\ task'.pc # "queued"

Rendered ==
    /\ phase = "live"
    /\ \/ fx.op = "start" /\ fx.content = "page"
       \/ fx.op = "edit"

\* C4 (as claimed): after the initial render and after any page transition the
\* first, last, forward, back and select controls are all disabled if the
\* source has exactly one entry and all enabled if it has more than one.
C4_DisablingRule ==
    (Rendered /\ MaxPagesKnown) =>
        /\ Len(pages) = 1 =>
              /\ \A c \in NavControls : disabled[c]
              /\ has_select => disabled["select"]
        /\ Len(pages) > 1 => \A c \in DOMAIN disabled : ~disabled[c]

\* get_page has just raised NoSchedule inside a transition of the GamesMenu
NoScheduleRaised == task.pc = "get_page" /\ fx'.op = "format_error"

\* C5: when get_page raises NoSchedule during a transition of a GamesMenu, the
\* session issues exactly one edit carrying the error text, the whole control
\* set stays attached and enabled, and current_page keeps its previous value.
C5_NoContentKeepsControls ==
    [][NoScheduleRaised =>
          /\ fx'.edits = 1 /\ fx'.content = "error" /\ fx'.deletes = 0
          /\ current_page' = current_page
          /\ select_view' = select_view
          /\ \A c \in DOMAIN disabled : ~disabled'[c]
          /\ message.exists =>
                /\ message'.exists /\ message'.content = "error"
                /\ message'.view = ViewItems("games", select_view)
                /\ {"forward", "back", "first", "last", "stop",
                    "pick_team", "change_date"} \subseteq message'.view
                /\ select_view # None => "select" \in message'.view]_vars

\* the error text is shown on a later page with the select still attached
C5_Witness ==
    /\ kind = "games" /\ fx.op = "format_error" /\ fx.edits = 1
    /\ message.exists /\ message.content = "error"
    /\ "select" \in message.view /\ current_page > 0

\* C6 (as claimed): over any interleaving of Stop activations and the timeout
\* handler of one session, the teardown side effect on the message (delete, or
\* the edit that detaches the controls) is performed at most once.
C6_TeardownOnce == teardowns <= 1

\* C7 (as claimed): once a session has been stopped or has timed out it is
\* inert: current_page no longer changes, no edit is issued to the message,
\* and after a timeout the message exists with no controls attached.
C7_TerminalInert ==
    [][/\ Finished => (current_page' = current_page /\ fx'.edits = 0)
       /\ finished' = "timeout" => (message'.exists /\ message'.view = {})]_vars

\* the window the specification prescribes for L options and current index c,
\* as the bounds [lo, hi) of the options shown
RefWindow(L, c) ==
    IF L <= 25 THEN <<0, L>>
    ELSE IF 12 < c /\ c < L - 25 THEN <<c - 12, c + 13>>
    ELSE IF c >= L - 25 THEN <<L - 25, L>>
    ELSE <<0, 25>>

\* C8: for every option-list length L and current index c with 0 <= c < L the
\* window built by _get_select_menu is the reference window: all options if
\* L <= 25, options[c-12:c+13] if 12 < c < L-25, the last 25 if c >= L-25,
\* else the first 25 (L=30,c=0: [0:25]; L=40,c=20: [15:40]; L=100,c=50: [38:63]).
C8_SelectWindow ==
    (kind = "destiny" /\ has_select /\ 0 <= current_page /\ current_page < NOpts) =>
        /\ select_view = RefWindow(NOpts, current_page)
        /\ (NOpts = 30 /\ current_page = 0) => select_view = <<0, 25>>
        /\ (NOpts = 40 /\ current_page = 20) => select_view = <<15, 40>>
        /\ (NOpts = 100 /\ current_page = 50) => select_view = <<38, 63>>

\* a centred window has been built for a long list
C8_Witness ==
    /\ kind = "destiny" /\ phase = "live"
    /\ NOpts = 100 /\ current_page = 50 /\ select_view = <<38, 63>>

\* C9: in every reachable state of every menu the attached select carries at
\* most 25 options.
C9_SelectAtMost25 == NumOptions(select_view) <= SelectLimit

\* a rebuilt select of a long list is full: it carries exactly 25 options
C9_Witness ==
    /\ kind = "hockey" /\ fx.op = "edit" /\ NOpts > SelectLimit
    /\ current_page >= Behind
    /\ NumOptions(select_view) = SelectLimit /\ "select" \in message.view

\* C10 (as claimed): when the option list has more than 25 entries and the
\* displayed page index c satisfies c >= L - 25, the select shows the last 25
\* options; the window never shrinks below 25 options near the end.
C10_TailWindow ==
    (/\ Rendered /\ message.exists /\ select_view # None
     /\ NOpts > SelectLimit
     /\ current_page >= NOpts - SelectLimit) =>
        select_view = <<NOpts - SelectLimit, NOpts>>

\* a destiny menu with select options has been constructed on page 20 of 30
Window30 ==
    kind = "destiny" /\ has_select /\ NOpts = 30 /\ current_page = 20

\* C11 (as claimed): for an option list of length L=30 and current index c=20
\* the select window is options[5:25].
C11_Window30AsClaimed == Window30 => select_view = <<5, 25>>

\* C11 (amended): for an option list of length L=30 and current index c=20 the
\* select window is the tail window options[5:30], the last 25 options.
C11_Window30 ==
    Window30 => (select_view = <<5, 30>> /\ NumOptions(select_view) = SelectLimit)

\* the menu over 30 options was started on page 20 and shows the last 25
C11_Witness ==
    /\ Window30 /\ phase = "live" /\ message.exists
    /\ "select" \in message.view /\ select_view = <<5, 30>>

\* the session is idle: started, not ended, no callback in flight, its message
\* showing a page with the select attached
IdleWithSelect ==
    /\ phase = "live" /\ ~Finished /\ task.pc = "idle"
    /\ MaxPagesKnown /\ has_select /\ select_view # None
    /\ message.exists /\ "select" \in message.view
    /\ 0 <= current_page /\ current_page < NOpts

\* C12 (as claimed): in every idle state of a session whose source has select
\* options, initially and after every successful transition by any control,
\* the option of current_page is among the options the attached select shows.
C12_CurrentInWindow == IdleWithSelect => current_page \in OptionsOf(select_view)

\* the Stop callback runs on a message that is still there
StopActivated == Runs("stop") /\ message.exists /\ fx'.op = "stop"

\* C13 (as claimed): activating Stop detaches the controls and deletes the
\* message when the message is not ephemeral; when it is ephemeral it only
\* detaches the controls and the message is not deleted; for every menu.
C13_StopEphemeral ==
    [][StopActivated =>
          /\ message'.view = {}
          /\ ~ephemeral => (fx'.deletes = 1 /\ ~message'.exists)
          /\ ephemeral => (fx'.deletes = 0 /\ message'.exists)]_vars

\* show_page has got the page of a resolved in-range index (task.n) of a list
\* source and goes on to render and edit: the transition succeeds
ResolvedInRange ==
    /\ MaxPagesKnown /\ task.pc = "format"
    /\ 0 <= task.n /\ task.n < get_max_pages(pages)

\* C14 (as claimed): after every successful transition to a resolved in-range
\* index n, current_page = n exactly, for any page list, including lists that
\* contain equal page objects at different indices.
C14_CurrentIsResolved ==
    [][ResolvedInRange /\ fx'.op = "edit" => current_page' = task.n]_vars

\* a page transition has just completed with its edit of the message
TransitionDone == fx.op = "edit" /\ fx.err = "none"

\* C15: every authorized control activation performs at most one get_page
\* attempt and at most one edit of the message (no retries); a successful
\* transition issues exactly one edit and no additional send.
C15_AtMostOneAttempt ==
    /\ calls.gets <= 1 /\ calls.edits <= 1
    /\ TransitionDone => (calls.gets = 1 /\ calls.edits = 1 /\ calls.sends = 0)

\* a transition of a GamesMenu to a later page has completed: one get_page
\* attempt, one edit, nothing sent
C15_Witness ==
    /\ kind = "games" /\ TransitionDone /\ task.pc = "idle" /\ current_page > 0
    /\ message.exists /\ message.content = "page"
    /\ calls = [gets |-> 1, edits |-> 1, sends |-> 0]

\* get_page has just raised IndexError inside a transition
IndexErrorRaised ==
    /\ task.pc \in {"queued", "get_page"}
    /\ fx'.op = "show_page" /\ fx'.get # None /\ fx'.err # "none"

\* C16 (as claimed): when get_page raises IndexError during a transition
\* started by any control (Forward, Back, First, Last, Select), the error is
\* swallowed: no exception leaves the callback, current_page and the control
\* set (with the select window) keep their values, and no edit is issued.
C16_IndexErrorSwallowed ==
    [][IndexErrorRaised =>
          /\ fx'.err = "swallowed"
          /\ current_page' = current_page
          /\ select_view' = select_view /\ disabled' = disabled
          /\ message' = message /\ fx'.edits = 0]_vars

\* a control callback of a menu over a list source has just called get_page
ListGetPageCalled == MaxPagesKnown /\ fx.op = "show_page" /\ fx.get # None

\* C17: with a known max_pages M, no control activation ever calls get_page
\* with an index outside [0, M), and an out-of-range request is never surfaced
\* as an error out of the control callback.
C17_GetPageInRange ==
    ListGetPageCalled =>
        /\ 0 <= fx.get[1] /\ fx.get[1] < get_max_pages(pages)
        /\ fx.err = "none"

\* Forward on the last page asked for index M and get_page was called with 0
C17_Witness ==
    /\ ListGetPageCalled /\ task.pc = "format" /\ task.ctl = "forward"
    /\ fx.req = Some(get_max_pages(pages)) /\ fx.get = Some(0)
    /\ get_max_pages(pages) > 1

\* prepare() has just raised NoSchedule inside the callback of Pick Team or
\* Change Date
PrepareNoSchedule ==
    task.pc = "prepare" /\ fx'.op = "prepare" /\ fx'.answer = "NoSchedule"

\* C18 (as claimed): when prepare() raises the no-content condition after a
\* Pick Team or Change Date filter entry, the fixed error message is rendered
\* on the session's message, the controls stay live, and no unhandled
\* exception escapes the control callback.
C18_PrepareNoContent ==
    [][PrepareNoSchedule =>
          /\ fx'.err = "none"
          /\ fx'.edits + fx'.sends >= 1
          /\ message.exists =>
                /\ message'.content = "error"
                /\ message'.view = ViewItems("games", select_view)]_vars

\* the callback of a toggle or filter-entry control has just run to its end
\* with content available: Heatmap or Gameflow was pressed, or prepare()
\* returned after a Pick Team or Change Date entry
ToggleActivated ==
    \/ task.ctl \in {"heatmap", "gameflow"} /\ fx'.op \in {"heatmap", "gameflow"}
    \/ task.pc = "prepare" /\ fx'.op = "prepare" /\ fx'.answer = "ok"

\* C19 (as claimed): activating a toggle or filter-entry control of a GamesMenu
\* (Heatmap, Gameflow, Pick Team, Change Date) with content available mutates
\* the source's filter state and then completes a transition to page 0:
\* afterwards current_page = 0 and exactly one edit carrying the re-rendered
\* page has been issued.
C19_ToggleGoesToPage0 ==
    [][ToggleActivated =>
          /\ current_page' = 0
          /\ calls'.edits = 1 /\ fx'.err = "none"
          /\ message.exists => message'.content = "page"]_vars

\* the bounded wait of a follow-up has just timed out
WaitTimedOut == task.pc = "wait" /\ fx'.op = "wait_for_timeout"

\* the authorized user has just answered a follow-up with a message that names
\* no known team (Pick Team) or contains no date (Change Date)
ReplyMismatch ==
    /\ task.pc = "wait" /\ fx'.reply # None
    /\ Some(fx'.reply[1]) = author
    /\ task.ctl = "pick_team" => TeamsNamed(1, fx'.reply[2]) = <<>>
    /\ task.ctl = "change_date" => DateIn(fx'.reply[2]) = None

\* C20 (as claimed): if the bounded wait of Pick Team or Change Date times out,
\* or the authorized user's reply does not match, the session state is
\* untouched: the source's team and date filters, current_page and the control
\* set keep their values and no re-prepare or page transition happens.
C20_FollowUpUntouched ==
    [][(WaitTimedOut \/ ReplyMismatch) =>
          /\ source'.team = source.team /\ source'.date = source.date
          /\ current_page' = current_page
          /\ select_view' = select_view /\ disabled' = disabled
          /\ message' = message
          /\ task'.pc # "prepare" /\ fx'.get = None]_vars

\* a user other than the authorized one has just written a message while a
\* free-text follow-up was waiting
OtherUserWrote ==
    /\ task.pc = "wait" /\ fx'.reply # None
    /\ author # None /\ fx'.reply[1] # author[1]

\* C21: while a free-text follow-up is waiting, a message written by any user
\* other than the session's authorized user never ends the wait and never
\* changes the source's filter state or current_page.
C21_OtherUserIgnored ==
    [][OtherUserWrote =>
          /\ task' = task
          /\ source' = source
          /\ current_page' = current_page]_vars

\* another user named a team while Pick Team was waiting, and the wait goes on
C21_Witness ==
    /\ task.pc = "wait" /\ task.ctl = "pick_team" /\ fx.op = "wait_for"
    /\ fx.reply = <<"u2", <<"BOS">> >> /\ author = Some("u1")
    /\ source.team = <<>>

\* the timeout handler has just run while a page transition was suspended in
\* get_page or format_page, and the transition now runs to its end
TransitionEndsExpired ==
    /\ fx.op = "on_timeout" /\ finished = "timeout"
    /\ task.pc \in {"get_page", "format"} /\ task'.pc = "idle"

\* C22 (as claimed): if the timeout handler runs while a page transition of the
\* same session is suspended in get_page or format_page, then after both have
\* finished the message has its controls detached (the transition's edit does
\* not re-attach the control set to an expired session) and the timeout
\* handler has detached them at most once.
C22_TimeoutRace ==
    [][/\ TransitionEndsExpired => (message'.exists => message'.view = {})
       /\ finished = "timeout" => fx'.op # "on_timeout"]_vars

\* the callback task t is inside a page transition: show_page has been entered
\* and its edit has not been issued yet
TransitionInFlight(t) == t.pc \in {"get_page", "format"}

\* C23 (as claimed): in no reachable state of a session are two edits of its
\* message outstanding at the same time, and no two page transitions of the
\* same session are in flight concurrently, under every interleaving of
\* control callbacks, the free-text wait and the timeout handler at their
\* suspension points.  An edit is one step here, so the formula states the
\* part on transitions: two transitions in flight are two edits still to come.
C23_OneTransitionAtATime ==
    ~(TransitionInFlight(task) /\ TransitionInFlight(parked.t))

\* C24 (as claimed): the session deadline is absolute: it is fixed when the
\* session starts and no control activation postpones it, so a session that
\* started at time t with timeout T expires at t+T however many interactions
\* arrive before then.  Stated on the view's expiry: once set it does not move
\* while the session lasts, and the timeout handler runs at t+T.
C24_AbsoluteDeadline ==
    [][/\ (timer.expiry # None /\ finished' = "no") => timer'.expiry = timer.expiry
       /\ fx'.op = "on_timeout" => timer'.now = timer.started[1] + Timeout]_vars

\* a page transition of a menu with more than 25 select options has just
\* completed on one of the first 12 pages
BackInFirstPages ==
    /\ MaxPagesKnown /\ has_select /\ NOpts > SelectLimit
    /\ TransitionDone /\ task.pc = "idle" /\ message.exists
    /\ 0 <= current_page /\ current_page < Behind

\* C25 (as claimed): for a source with more than 25 select options, every
\* transition that brings the displayed page from an index >= 12 back to an
\* index < 12 rebuilds the select so that it shows the first 25 options; the
\* select is rebuilt on every crossing into or out of the first 12 indices.
\* (A select that shows the first 25 options stays so while the page stays
\* below 12, so the state after any transition to a page below 12 is stated.)
C25_RebuiltOnReturn ==
    BackInFirstPages =>
        (select_view = <<0, SelectLimit>> /\ "select" \in message.view)

\* a control callback of a menu whose max_pages is unknown has just run up to
\* its request to the source
UnknownMaxActivated ==
    /\ ~max_known /\ fx.op \in {"show_page", "last"}
    /\ calls.edits = 0

\* C26 (as claimed): when max_pages() is unknown, no control activation
\* performs wrap-around arithmetic on it: Forward, Back, Select and Last all
\* pass the requested index to get_page unchanged and none fails because the
\* maximum is unknown.
C26_UnknownMaxPassThrough ==
    UnknownMaxActivated =>
        /\ fx.req # None => fx.get = fx.req
        /\ fx.err # none_minus_one

\* the transition started by control c has just completed with its edit
Ends(c) == task.ctl = c /\ task.pc = "format" /\ fx'.op = "edit"

\* the callback of control c has just asked for a page
Requests(c) == Runs(c) /\ fx'.op = "show_page"

\* the index a callback has just asked for: what it handed to
\* show_checked_page (GamesMenu.show_checked_page hands it on to show_page)
Requested == IF kind = "games" THEN Some(task'.n) ELSE fx'.req

\* C27 (as claimed): from any page of a session with M > 0 pages, activating
\* the First control ends with current_page = 0 and activating the Last
\* control ends with current_page = M - 1; activating Forward requests
\* current_page + 1 and Back requests current_page - 1.
C27_FirstLastForwardBack ==
    [][get_max_pages(pages) > 0 =>
          /\ Ends("first") => current_page' = 0
          /\ Ends("last") => current_page' = get_max_pages(pages) - 1
          /\ Requests("forward") => Requested = Some(current_page + 1)
          /\ Requests("back") => Requested = Some(current_page - 1)]_vars

\* C28 (as claimed): choosing an option in the select control moves the
\* session to the page that option stands for: after the activation,
\* current_page equals the index of the chosen option in the source's option
\* list (for the page select, the player select and the game select).
C28_SelectGoesToOption ==
    [][Ends("select") => current_page' = task.value[1]]_vars

\* a task created by the game tracker has just run
TrackerTaskRan == fx'.op \in TrackerOps

ControlsLive ==
    /\ phase \in {"live", "sent"} /\ ~Finished
    /\ message.exists /\ message.view # {}

\* C30 (as claimed): from the moment the message carrying the controls has been
\* sent, the authorized user is set: there is no reachable state in which the
\* controls are live while author is still unset, so no interaction from
\* another user is ever accepted (or crashes the check) in the window between
\* sending the message and recording the author.
C30_AuthorSetWhenLive ==
    /\ ControlsLive => author # None
    /\ fx.op = "interaction_check" => fx.err = "none"
    /\ task.pc \notin {"idle", "queued"} => author = Some(task.user)

\* the callback of the Heatmap (Gameflow) button has just run
HeatmapPressed == Runs("heatmap") /\ fx'.op = "heatmap"
GameflowPressed == Runs("gameflow") /\ fx'.op = "gameflow"

\* C31: after any non-empty sequence of Heatmap and Gameflow activations, the
\* source never has include_heatmap and include_gameflow both true: a Heatmap
\* press leaves heatmap on and gameflow off, a Gameflow press leaves gameflow
\* on and heatmap off.
C31_HeatmapXorGameflow ==
    [][/\ HeatmapPressed =>
             (source'.include_heatmap /\ ~source'.include_gameflow)
       /\ GameflowPressed =>
             (source'.include_gameflow /\ ~source'.include_heatmap)
       /\ (fx.op \in {"heatmap", "gameflow"} \/ label # NewLabels) =>
             ~(source.include_heatmap /\ source.include_gameflow)]_vars

\* Heatmap was pressed on a source that had gameflow on: gameflow is now off
\* (the Gameflow button still carries the label of an earlier press)
C31_Witness ==
    /\ fx.op = "heatmap" /\ label.gameflow # <<"Gameflow">>
    /\ source.include_heatmap /\ ~source.include_gameflow

\* the source after n further Heatmap presses
RECURSIVE HeatmapPresses(_, _)
HeatmapPresses(src, n) ==
    IF n = 0 THEN src ELSE HeatmapPresses(heatmap_pressed(src), n - 1)

\* the style cycle as the claim states it
StyleCycle == <<"all", "ev", "5v5", "sva", "home5v4", "away5v4">>
StyleAfter(style) ==
    LET i == CHOOSE k \in 1..Len(StyleCycle) : StyleCycle[k] = style
    IN  StyleCycle[(i % Len(StyleCycle)) + 1]

\* C32: Heatmap style cycle: a Heatmap press made while the heatmap is off
\* turns it on and leaves the style unchanged; each press made while it is on
\* advances the style along all -> ev -> 5v5 -> sva -> home5v4 -> away5v4 ->
\* all, so six consecutive presses with the heatmap on return to the starting
\* style and visit every style once.
C32_HeatmapCycle ==
    [][HeatmapPressed =>
          /\ ~source.include_heatmap =>
                (source'.include_heatmap /\ source'.style = source.style)
          /\ source.include_heatmap =>
                /\ source'.include_heatmap
                /\ source'.style = StyleAfter(source.style)
                /\ HeatmapPresses(source, 6).style = source.style
                /\ {HeatmapPresses(source, k).style : k \in 1..6} = Styles]_vars

\* five presses with the heatmap on have taken the style from all to away5v4
C32_Witness ==
    /\ fx.op = "heatmap" /\ source.include_heatmap
    /\ source.style = "away5v4" /\ label.heatmap = <<"Heatmap", "away5v4">>

\* the source after n further Gameflow presses
RECURSIVE GameflowPresses(_, _)
GameflowPresses(src, n) ==
    IF n = 0 THEN src ELSE GameflowPresses(gameflow_pressed(src), n - 1)

\* the (corsi, strength) cycle written out: Corsi through the four strengths,
\* then Expected Goals through the four strengths
PairCycle ==
    <<<<TRUE, "all">>, <<TRUE, "ev">>, <<TRUE, "5v5">>, <<TRUE, "sva">>,
      <<FALSE, "all">>, <<FALSE, "ev">>, <<FALSE, "5v5">>, <<FALSE, "sva">>>>
PairAfter(pair) ==
    LET i == CHOOSE k \in 1..Len(PairCycle) : PairCycle[k] = pair
    IN  PairCycle[(i % Len(PairCycle)) + 1]

PairOf(src) == <<src.corsi, src.strength>>

\* C33: Gameflow cycle: with gameflow on and a strength in {all, ev, 5v5, sva},
\* each Gameflow press advances (corsi, strength) along a single cycle of
\* length eight that visits all eight combinations, so eight consecutive
\* presses return to the starting pair; a press made while gameflow is off
\* turns it on and leaves (corsi, strength) unchanged.
C33_GameflowCycle ==
    [][GameflowPressed =>
          /\ ~source.include_gameflow =>
                (source'.include_gameflow /\ PairOf(source') = PairOf(source))
          /\ (source.include_gameflow /\ source.strength \in Strengths) =>
                /\ source'.include_gameflow
                /\ PairOf(source') = PairAfter(PairOf(source))
                /\ PairOf(GameflowPresses(source, 8)) = PairOf(source)
                /\ {PairOf(GameflowPresses(source, k)) : k \in 1..8}
                      = BOOLEAN \X Strengths]_vars

\* presses with gameflow on have taken the pair from (Corsi, all) through the
\* four Corsi strengths to (Expected Goals, sva)
C33_Witness ==
    /\ fx.op = "gameflow" /\ source.include_gameflow
    /\ ~source.corsi /\ source.strength = "sva"
    /\ label.gameflow = <<"Gameflow", "Expected Goals", "sva">>

\* the re-render started by a Heatmap or Gameflow press has failed
ToggleRenderFailed ==
    /\ HeatmapPressed \/ GameflowPressed
    /\ fx'.err # "none"

\* C34 (as claimed): if the re-render triggered by a Heatmap or Gameflow press
\* fails (the call to show page 0 raises or reports no content), the source's
\* filter state (include_heatmap, include_gameflow, style, corsi, strength) and
\* the button label are as they were before the press.
C34_FailedToggleRolledBack ==
    [][ToggleRenderFailed =>
          /\ source'.include_heatmap = source.include_heatmap
          /\ source'.include_gameflow = source.include_gameflow
          /\ source'.style = source.style
          /\ source'.corsi = source.corsi
          /\ source'.strength = source.strength
          /\ label' = label]_vars

\* C35 (as claimed): whenever a select control is attached to a session, it
\* carries at least one option, in every reachable state (including an empty
\* page list, and a GamesMenu page number past the end of the option list).
C35_SelectNotEmpty == select_view # None => NumOptions(select_view) >= 1

-----------------------------------------------------------------------------
\* The game tracker's polls (Game.check_game_state in game.py).  The tracker
\* variable holds
\*   teams  the saved team entries (config.teams), one per team,
\*   games  the data of each tracked game as the feed last gave it,
\*   posts  per game, how often each thing has been posted,
\*   last   per game, what the last poll posted and returned,
\*   co     per game, where its check_game_state coroutine is suspended.

\* the most goals a side scores
MaxGoals == 1

\* a poll is taken while every count of posts is below this
MaxPosts == 3

\* the periods that have an end-of-period recap
Periods == {1, 2, 3}

\* the suffix save_game_state is given at the end of a period
EndOf(p) == IF p = 1 THEN "END1st" ELSE IF p = 2 THEN "END2nd" ELSE "END3rd"

\* minutes to the start of the game seen by a poll of a Preview game
StartMinutes == {90, 45, 30, 20, 5}

\* the pre-game notices
Windows == {"60", "30", "10"}

\* self.game_state + time_to_game_start: the saved state is the state's name
\* followed by the suffix; "0" stands for no suffix ("Preview60" is
\* <<"Preview", "60">>, "Live" is <<"Live", "0">>)
saved_state(game_state, suffix) == <<game_state, suffix>>

\* "Null", the state of a team with no game
Null == saved_state("Null", "0")

\* "Preview" in home["game_state"]
IsPreview(st) == st[1] = "Preview"

\* the entry of a team that has no game (TeamEntry("Null", team, 0, ...))
NullEntry == [game_state |-> Null, period |-> 0, goal_id |-> {}]

\* get_team(bot, team, game_start, game_id): the saved entry of the team
get_team(teams, team) == teams[team]

\* self.goals: the goals of the game, the side that scored and its number
goals(g) ==
    {<<"home", i>> : i \in 1..g.home_goals} \cup {<<"away", i>> : i \in 1..g.away_goals}

\* every goal a game can have
AllGoals == {"home", "away"} \X (1..MaxGoals)

\* goal.team_name
team_name(g, gl) == g[gl[1]]

\* team_data[goal.team_name]["goal_id"][goal.goal_id] = {...} for each goal of
\* gls, on the caller's copy of the team list
record_goals(team_list, g, gls) ==
    [t \in DOMAIN team_list |->
        [team_list[t] EXCEPT !.goal_id = @ \cup {gl \in gls : team_name(g, gl) = t}]]

\* Goal.remove_goal_post for every recorded goal of a side: a goal that the
\* feed no longer has is deleted from the side's entry
remove_goal_post(team_list, g, side) ==
    [team_list EXCEPT ![g[side]].goal_id = {gl \in @ : gl[1] = side => gl \in goals(g)}]

\* the goals check_team_goals finds new in the copy team_data
new_goals(team_data, g) ==
    {gl \in goals(g) : gl \notin team_data[team_name(g, gl)].goal_id}

\* abs(len(home_goal_list) - len(self.home_goals)) is in (1, 2]
called_back(recorded, g, side) ==
    LET mine == Cardinality({gl \in recorded : gl[1] = side})
        now  == IF side = "home" THEN g.home_goals ELSE g.away_goals
        diff == IF mine >= now THEN mine - now ELSE now - mine
    IN  1 < diff /\ diff <= 2

\* the tail of check_team_goals: goals called back are deleted
goals_removed(team_list, before, g) ==
    LET h == IF called_back(before[g.home].goal_id, g, "home")
             THEN remove_goal_post(team_list, g, "home") ELSE team_list
    IN  IF called_back(before[g.away].goal_id, g, "away")
        THEN remove_goal_post(h, g, "away") ELSE h

\* check_team_goals run without another coroutine in between: every new goal
\* is posted and recorded, then the goals called back are deleted
check_team_goals(teams, g) ==
    LET new == new_goals(teams, g)
    IN  [teams |-> goals_removed(record_goals(teams, g, new), teams, g),
         posted |-> new]

\* a save that drops the suffix
new_state_plain(g, suffix) == saved_state(g.game_state, "0")

\* the game_state save_game_state writes for a game that is not over, and for
\* one that is over when it is given a suffix
new_state(g, suffix) == saved_state(g.game_state, suffix)

\* save_game_state(bot, time_to_game_start): the entries of both teams
save_game_state(teams, g, suffix) ==
    LET entry(t) ==
            IF g.game_state # "Final"
            THEN [get_team(teams, t) EXCEPT
                      !.game_state = new_state(g, suffix),
                      !.period = g.period]
            ELSE IF suffix = "0"
                 THEN NullEntry
                 ELSE [get_team(teams, t) EXCEPT !.game_state = new_state(g, suffix)]
    IN  [t \in DOMAIN teams |-> IF t \in {g.home, g.away} THEN entry(t) ELSE teams[t]]

\* game_start < hi and game_start > lo
InWindow(g, w) ==
    LET hi == IF w = "60" THEN 60 ELSE IF w = "30" THEN 30 ELSE 10
        lo == IF w = "60" THEN 30 ELSE IF w = "30" THEN 10 ELSE 0
    IN  g.game_start < hi /\ g.game_start > lo

\* nothing posted
NoPosted == [state |-> FALSE, notice |-> {}, recap |-> {}, goals |-> {},
             final |-> FALSE, result |-> FALSE]

\* the Preview branch of check_game_state; home is the entry read at the top
preview_branch(teams, home, g) ==
    LET first == ~IsPreview(home.game_state)
        t1    == IF first THEN save_game_state(teams, g, "0") ELSE teams
        due   == {w \in Windows :
                     InWindow(g, w) /\ home.game_state # saved_state("Preview", w)}
        t2    == IF due = {} THEN t1
                 ELSE save_game_state(t1, g, CHOOSE w \in due : TRUE)
    IN  [teams |-> t2, posted |-> [NoPosted EXCEPT !.state = first, !.notice = due]]

\* the end-of-period checks of the Live branch
live_recaps(home, g) ==
    {p \in Periods :
        /\ g.ended /\ g.period = p
        /\ IF p = 3
           THEN home.game_state \notin {saved_state("Live", "END3rd"),
                                        saved_state("Final", "END3rd")}
           ELSE home.game_state # saved_state("Live", EndOf(p))}

\* the Live branch of check_game_state
live_branch(teams, home, g) ==
    LET start == home.period # g.period \/ IsPreview(home.game_state)
        t1    == IF start THEN save_game_state(teams, g, "0") ELSE teams
        ctg   == IF g.home_goals + g.away_goals # 0
                 THEN check_team_goals(t1, g)
                 ELSE [teams |-> t1, posted |-> {}]
        due   == live_recaps(home, g)
        t3    == IF due = {} THEN ctg.teams
                 ELSE save_game_state(ctg.teams, g, EndOf(CHOOSE p \in due : TRUE))
    IN  [teams |-> t3,
         posted |-> [NoPosted EXCEPT !.state = start, !.goals = ctg.posted,
                                     !.recap = due]]

\* the Final branch of check_game_state
final_branch(teams, home, g) ==
    LET ctg   == IF g.home_goals + g.away_goals # 0
                 THEN check_team_goals(teams, g)
                 ELSE [teams |-> teams, posted |-> {}]
        third == /\ g.ended /\ g.period = 3
                 /\ home.game_state \notin {saved_state("Live", "END3rd"),
                                            saved_state("Final", "END3rd")}
        t2    == IF third THEN save_game_state(ctg.teams, g, "END3rd") ELSE ctg.teams
        final == /\ g.ready
                 /\ home.game_state # saved_state(g.game_state, "0")
                 /\ home.game_state # Null
        t3    == IF final THEN save_game_state(t2, g, "0") ELSE t2
    IN  [teams |-> t3,
         posted |-> [NoPosted EXCEPT !.goals = ctg.posted,
                                     !.recap = IF third THEN {3} ELSE {},
                                     !.state = final, !.final = final,
                                     !.result = final]]

\* one call of check_game_state that no other coroutine interleaves with
poll(teams, g) ==
    LET home == get_team(teams, g.home)
    IN  IF g.game_state = "Preview" THEN preview_branch(teams, home, g)
        ELSE IF g.game_state = "Live" THEN live_branch(teams, home, g)
        ELSE final_branch(teams, home, g)

\* no post counted yet
NoPosts ==
    [final |-> 0, notice |-> [w \in Windows |-> 0], recap |-> [p \in Periods |-> 0],
     goals |-> [gl \in AllGoals |-> 0]]

\* the posts of one poll added to the counts
Counted(posts, posted) ==
    [final  |-> posts.final + (IF posted.final THEN 1 ELSE 0),
     notice |-> [w \in Windows |-> posts.notice[w] + (IF w \in posted.notice THEN 1 ELSE 0)],
     recap  |-> [p \in Periods |-> posts.recap[p] + (IF p \in posted.recap THEN 1 ELSE 0)],
     goals  |-> [gl \in AllGoals |-> posts.goals[gl] + (IF gl \in posted.goals THEN 1 ELSE 0)]]

\* some count has reached the bound
Full(posts) ==
    \/ posts.final >= MaxPosts
    \/ \E w \in Windows : posts.notice[w] >= MaxPosts
    \/ \E p \in Periods : posts.recap[p] >= MaxPosts
    \/ \E gl \in AllGoals : posts.goals[gl] >= MaxPosts

\* the menus are left as they are
MenuFrame ==
    UNCHANGED <<kind, pages, source, has_select, ephemeral, max_known, label, parked,
                timer, phase, current_page, select_view, disabled, finished, message,
                task, author, teardowns, calls, fx>>

\* the data of a game that is yet to start
Scheduled(home, away, m) ==
    [home |-> home, away |-> away, game_state |-> "Preview", game_start |-> m,
     period |-> 0, ended |-> FALSE, home_goals |-> 0, away_goals |-> 0, ready |-> FALSE]

\* what the feed may give for a game next: the start comes nearer, the game
\* goes live, a period ends, the next one starts, a goal is scored, the game
\* is final, its stars and goal counts are complete
Later(g) ==
    IF g.game_state = "Preview"
    THEN {[g EXCEPT !.game_start = m] : m \in {n \in StartMinutes : n < g.game_start}}
         \cup {[g EXCEPT !.game_state = "Live", !.game_start = 0, !.period = 1]}
    ELSE IF g.game_state = "Live"
    THEN {[g EXCEPT !.ended = TRUE] : x \in {1} \ (IF g.ended THEN {1} ELSE {})}
         \cup {[g EXCEPT !.period = @ + 1, !.ended = FALSE] :
                   x \in IF g.ended /\ g.period + 1 \in Periods THEN {1} ELSE {}}
         \cup {[g EXCEPT !.home_goals = @ + 1] : x \in IF g.home_goals < MaxGoals THEN {1} ELSE {}}
         \cup {[g EXCEPT !.away_goals = @ + 1] : x \in IF g.away_goals < MaxGoals THEN {1} ELSE {}}
         \cup {[g EXCEPT !.game_state = "Final", !.ended = e] :
                   e \in IF g.period = 3 THEN BOOLEAN ELSE {}}
    ELSE {[g EXCEPT !.ready = TRUE] : x \in IF g.ready THEN {} ELSE {1}}

\* the feed has new data for the game
game_data(gm) ==
    /\ tracker # NoTracker
    /\ gm \in DOMAIN tracker.games
    /\ \E g \in Later(tracker.games[gm]) :
        tracker' = [tracker EXCEPT !.games[gm] = g]
    /\ MenuFrame

\* Game.check_game_state for the game, run from start to end
check_game_state(gm) ==
    /\ tracker # NoTracker
    /\ gm \in DOMAIN tracker.games
    /\ ~Full(tracker.posts[gm])
    /\ LET p == poll(tracker.teams, tracker.games[gm])
       IN  tracker' = [tracker EXCEPT !.teams = p.teams,
                                      !.posts[gm] = Counted(@, p.posted),
                                      !.last[gm] = p.posted]
    /\ MenuFrame

\* one game yet to start, with no state saved for its teams
InitPoll ==
    /\ Construct("games", Distinct(1), FALSE, FALSE, 0)
    /\ source = NewSource(<<>>)
    /\ max_known = TRUE
    /\ \E m \in StartMinutes :
        tracker = [teams |-> [t \in {"H", "A"} |-> NullEntry],
                   games |-> [gm \in {"g1"} |-> Scheduled("H", "A", m)],
                   posts |-> [gm \in {"g1"} |-> NoPosts],
                   last  |-> [gm \in {"g1"} |-> NoPosted]]

NextPoll ==
    \/ game_data("g1")
    \/ check_game_state("g1")

\* one game polled again and again while its data changes
SpecPoll == InitPoll /\ [][NextPoll]_vars

\* C36 (as claimed): for one game, over any number of polls with the saved
\* team entries kept between the polls, the final game state is posted (and
\* check_game_state returns True) at most once.
C36_FinalPostedOnce == tracker.posts["g1"].final <= 1

\* C37 (as claimed): for one game, over any number of polls (polls after the
\* final state has been saved included), each goal id is posted as a new goal
\* at most once.
C37_GoalPostedOnce == \A gl \in AllGoals : tracker.posts["g1"].goals[gl] <= 1

\* C39: while the game is not final, each pre-game notice (60, 30, 10) has
\* been posted at most once and the recap of each period at most once, however
\* often the game is polled.
C39_NoticeOnce ==
    tracker.games["g1"].game_state # "Final" =>
        /\ \A w \in Windows : tracker.posts["g1"].notice[w] <= 1
        /\ \A p \in Periods : tracker.posts["g1"].recap[p] <= 1

\* the 60-minute notice and the recap of the first period have each been
\* posted, and a further poll at the end of the first period posted nothing
C39_Witness ==
    /\ tracker.games["g1"].game_state = "Live"
    /\ tracker.games["g1"].period = 1 /\ tracker.games["g1"].ended
    /\ tracker.posts["g1"].notice["60"] = 1
    /\ tracker.posts["g1"].recap[1] = 1
    /\ tracker.teams["H"].game_state = saved_state("Live", "END1st")
    /\ tracker.last["g1"] = NoPosted

-----------------------------------------------------------------------------
\* check_game_state for two games on one event loop.  A coroutine runs until
\* it awaits a post (post_game_state, goal.post_team_goal, period_recap) and
\* the other one may run before it is resumed.  co holds, per game, where the
\* coroutine is suspended and its local variables: home (read once at the
\* top), team_list (the copy of the whole list check_team_goals read, whose
\* entries for the game's teams are the objects of team_data), before (the
\* goals recorded when check_team_goals began), cur (the goal being posted).

\* a coroutine that has not started
NotStarted ==
    [pc |-> "idle", home |-> NullEntry, team_list |-> <<>>, before |-> <<>>, cur |-> <<>>]

\* a game in its first period, as the feed gives it
Playing(home, away, e, hg, ag) ==
    [home |-> home, away |-> away, game_state |-> "Live", game_start |-> 0,
     period |-> 1, ended |-> e, home_goals |-> hg, away_goals |-> ag, ready |-> FALSE]

\* from the end-of-period checks of the Live branch to the next await
to_recap(c, g) ==
    IF live_recaps(c.home, g) # {} THEN [c EXCEPT !.pc = "recap"] ELSE [c EXCEPT !.pc = "done"]

\* from the goals check of the Live branch to the next await: the coroutines
\* and saved lists that check_team_goals can be suspended with, or the state
\* after it when there is no new goal
to_goals(c, teams, g) ==
    LET new == IF g.home_goals + g.away_goals # 0 THEN new_goals(teams, g) ELSE {}
    IN  IF new # {}
        THEN {[co |-> [c EXCEPT !.pc = "goal", !.team_list = teams, !.before = teams,
                                !.cur = gl],
               teams |-> teams] : gl \in new}
        ELSE {[co |-> to_recap(c, g),
               teams |-> IF g.home_goals + g.away_goals # 0
                         THEN goals_removed(teams, teams, g) ELSE teams]}

\* a coroutine of another game is suspended in the middle of its poll
Overlaps(gm) ==
    \E o \in DOMAIN tracker.co \ {gm} : tracker.co[o].pc \notin {"idle", "done"}

\* the step of a coroutine: it continues as n.co with the saved list n.teams
Resumed(gm, n) ==
    tracker' = [tracker EXCEPT !.co[gm] = n.co, !.teams = n.teams,
                               !.overlap = @ \/ Overlaps(gm)]

\* check_game_state is called for a Live game: home is read; at the start of
\* a period it awaits post_game_state, otherwise it goes on to the goals
check_game_state_called(gm) ==
    /\ tracker # NoTracker
    /\ "co" \in DOMAIN tracker
    /\ tracker.co[gm].pc = "idle"
    /\ LET g    == tracker.games[gm]
           home == get_team(tracker.teams, g.home)
           c    == [tracker.co[gm] EXCEPT !.home = home]
       IN  IF home.period # g.period \/ IsPreview(home.game_state)
           THEN Resumed(gm, [co |-> [c EXCEPT !.pc = "state"], teams |-> tracker.teams])
           ELSE \E n \in to_goals(c, tracker.teams, g) : Resumed(gm, n)
    /\ MenuFrame

\* post_game_state has returned: save_game_state, then the goals
post_game_state_resumed(gm) ==
    /\ tracker # NoTracker
    /\ "co" \in DOMAIN tracker
    /\ tracker.co[gm].pc = "state"
    /\ LET g == tracker.games[gm]
       IN  \E n \in to_goals(tracker.co[gm], save_game_state(tracker.teams, g, "0"), g) :
               Resumed(gm, n)
    /\ MenuFrame

\* goal.post_team_goal has returned: the goal is recorded in the coroutine's
\* copy of the list and config.teams.set(team_list) saves that copy; the loop
\* goes on to the next goal that is new in team_data
post_team_goal_resumed(gm) ==
    /\ tracker # NoTracker
    /\ "co" \in DOMAIN tracker
    /\ tracker.co[gm].pc = "goal"
    /\ LET g    == tracker.games[gm]
           c    == tracker.co[gm]
           list == record_goals(c.team_list, g, {c.cur})
           new  == new_goals(list, g)
       IN  IF new # {}
           THEN \E gl \in new :
                   Resumed(gm, [co |-> [c EXCEPT !.team_list = list, !.cur = gl],
                                teams |-> list])
           ELSE Resumed(gm, [co |-> to_recap([c EXCEPT !.team_list = list], g),
                             teams |-> goals_removed(list, c.before, g)])
    /\ MenuFrame

\* period_recap has returned: save_game_state with the suffix of the period
period_recap_resumed(gm) ==
    /\ tracker # NoTracker
    /\ "co" \in DOMAIN tracker
    /\ tracker.co[gm].pc = "recap"
    /\ LET g == tracker.games[gm]
       IN  Resumed(gm, [co |-> [tracker.co[gm] EXCEPT !.pc = "done"],
                        teams |-> save_game_state(tracker.teams, g, EndOf(g.period))])
    /\ MenuFrame

\* the two games
TwoGames == {"g1", "g2"}

\* two games in their first period, each with any goals and with the period
\* running or ended, and no state saved for their teams
InitTwo ==
    /\ Construct("games", Distinct(1), FALSE, FALSE, 0)
    /\ source = NewSource(<<>>)
    /\ max_known = TRUE
    /\ \E e1 \in BOOLEAN, e2 \in BOOLEAN, h1 \in 0..MaxGoals, a1 \in 0..MaxGoals,
          h2 \in 0..MaxGoals, a2 \in 0..MaxGoals :
        tracker = [teams |-> [t \in {"H1", "A1", "H2", "A2"} |-> NullEntry],
                   games |-> [gm \in TwoGames |->
                                 IF gm = "g1" THEN Playing("H1", "A1", e1, h1, a1)
                                              ELSE Playing("H2", "A2", e2, h2, a2)],
                   co |-> [gm \in TwoGames |-> NotStarted],
                   overlap |-> FALSE]

NextTwo ==
    \E gm \in TwoGames :
        \/ check_game_state_called(gm)
        \/ post_game_state_resumed(gm)
        \/ post_team_goal_resumed(gm)
        \/ period_recap_resumed(gm)

\* one poll of each of two games, interleaved at the awaits
SpecTwo == InitTwo /\ [][NextTwo]_vars

\* both polls have returned
BothDone == \A gm \in TwoGames : tracker.co[gm].pc = "done"

\* the saved entries of a game's teams are what its poll wrote: the state
\* (with the suffix of the period that ended), the period, every goal
Reflected(gm) ==
    LET g == tracker.games[gm]
    IN  \A side \in {"home", "away"} :
            LET entry == tracker.teams[g[side]]
            IN  /\ entry.game_state =
                       saved_state("Live", IF g.ended THEN EndOf(g.period) ELSE "0")
                /\ entry.period = g.period
                /\ entry.goal_id = {gl \in goals(g) : gl[1] = side}

\* C38 (as claimed): when the polls of two different games interleave at
\* their awaits, no update of the shared saved team list is lost: after both
\* have finished, the saved state and the recorded goals of every team are
\* what the two polls wrote.
C38_NoLostUpdates == BothDone => \A gm \in TwoGames : Reflected(gm)

====
